---------------------------- MODULE Spec2Model ----------------------------
(***************************************************************************)
(* Model of the per-file repair sessions of the ESLint tools:              *)
(*   ESLintHelper.clean_file_automatically   (eslint-helper.py)            *)
(*   ESLintAutomation.clean_single_file      (eslint-automation.py)        *)
(* of the rewrite step ESLintHelper.apply_parsing_fixes on its own, and of *)
(* the project-wide run main / ESLintHelper.auto_fix_all_files.            *)
(*                                                                         *)
(* A file's text is an abstract content id.  The external checker is the   *)
(* function lint (content -> number of diagnostics of that content).  A    *)
(* rewrite rule is a function on contents; the rule table of a tool is a   *)
(* sequence of rules, and the line-targeted fixes driven by the current    *)
(* diagnostics are one more rule applied before the table.                 *)
(*                                                                         *)
(* With io_faults = TRUE the environment may fail: a checker call whose    *)
(* output cannot be obtained or parsed yields the empty list (both         *)
(* get_file_errors swallow every exception), a read in a rewrite step may  *)
(* fail, a write or a copy may stop part-way and leave any content behind. *)
(* With lint_faults = TRUE a checker call may yield nothing parseable.     *)
(* os.remove and os.path.exists are taken not to fail.                     *)
(***************************************************************************)
EXTENDS Integers, Sequences, FiniteSets, TLC

VARIABLES
    tool,                 \* "helper" | "automation": which class runs the session
    io_faults,            \* whether the environment may fail I/O in this behaviour
    lint_faults,          \* whether a checker call may yield no parseable output
    lint,                 \* the checker: content -> diagnostic count
    line_fix,             \* rule applied by the line-targeted fixes
    parsing_fixes,        \* the ordered rule table (sequence of rule names)
    file_content,         \* content of file_path on disk
    backup,               \* content of file_path + ".bak", or NoBackup
    pc,                   \* position of the session in its method
    iteration,            \* iteration / iterations
    initial_error_count,  \* initial_error_count / initial_count
    current_error_count,  \* current_error_count / len(current_errors)
    changes_made,         \* clean_single_file: changes_made
    iteration_changes,    \* clean_single_file: iteration_changes
    result,               \* the returned tuple, or NoResult
    exit,                 \* which exit the session took
    snapshot,             \* history: file content when the session started
    backups_created,      \* history: number of create_backup calls that made a backup
    written,              \* history: a rewrite step has written to file_path
    adapter_calls,        \* history: get_file_errors invocations
    io_failed,            \* history: an I/O operation failed after the snapshot step
    last_written,         \* history: content last written in full by a rewrite
                          \* step (the content found, before the first write)
    run_pc,               \* position of main / auto_fix_all_files ("off": no run)
    project,              \* content of every .ts file of the project, the file
                          \* of the running session excepted (see Disk)
    backups,              \* likewise the .bak file next to every .ts file
    problem_files,        \* auto_fix_all_files: problem_files
    file_index,           \* auto_fix_all_files: i
    file_path,            \* auto_fix_all_files: file_path
    records,              \* history: what the run recorded for each session
    total_files_improved, \* auto_fix_all_files: total_files_improved
    total_errors_fixed,   \* auto_fix_all_files: total_errors_fixed
    printed,              \* messages of main and run_lint_count on stdout
    lint_output,          \* get_file_errors: what the checker printed for one call
    errors                \* get_file_errors: the list it returned

vars == <<tool, io_faults, lint_faults, lint, line_fix, parsing_fixes, file_content, backup,
          pc, iteration, initial_error_count, current_error_count,
          changes_made, iteration_changes, result, exit, snapshot,
          backups_created, written, adapter_calls, io_failed, last_written,
          run_pc, project, backups, problem_files, file_index, file_path,
          records, total_files_improved, total_errors_fixed, printed,
          lint_output, errors>>

(* The state of a project-wide run.                                        *)
RunVars == <<run_pc, project, backups, problem_files, file_index, file_path,
             records, total_files_improved, total_errors_fixed, printed>>

---------------------------------------------------------------------------
(* The state of one get_file_errors call looked at on its own.            *)
ParserVars == <<lint_output, errors>>

---------------------------------------------------------------------------
(* Bounds of the model *)

MaxContent == 2
MaxCount == 3

Contents == 0..MaxContent
Counts == 0..MaxCount

NoBackup == -1
NoResult == <<>>

(* The .ts files of the project.                                           *)
Files == {"a.ts", "b.ts"}
NoFile == "none"

(* Program constants *)

max_iterations == 20
clean_single_file_max_iterations == 10

---------------------------------------------------------------------------
(* Rewrite rules.  Each rule is a total function on contents; a rule that  *)
(* does not match leaves the content as it is (re.sub without a match).    *)

RuleNames == {"none", "step", "swap", "rot"}

Rule(r, c) ==
    CASE r = "none" -> c
      [] r = "step" -> IF c < MaxContent THEN c + 1 ELSE c
      [] r = "swap" -> IF c = 0 THEN 1 ELSE IF c = 1 THEN 0 ELSE c
      [] r = "rot"  -> (c + 1) % (MaxContent + 1)

(* The rule tables the sessions are run with: <<line fix, table>>.         *)
RuleTables ==
    { <<"none", <<"none", "none">> >>,     \* nothing ever matches
      <<"step", <<"none", "none">> >>,     \* only a line-targeted fix matches
      <<"none", <<"step", "none">> >>,     \* progress to a fixed point
      <<"none", <<"step", "step">> >>,     \* later rule sees earlier output
      <<"none", <<"swap", "none">> >>,     \* cycles between two contents
      <<"none", <<"swap", "swap">> >>,     \* fixes that cancel out
      <<"none", <<"rot", "none">> >>,      \* cycles through every content
      <<"swap", <<"none", "step">> >> }

(* Variant in which every rule is applied to the content as read, not to   *)
(* the output of the rule before it: the last rule that matches wins.      *)
GeneralFixesUnchained(fixes, content, changed) ==
    LET hits == {i \in 1..Len(fixes) : Rule(fixes[i], content) # content}
        last == CHOOSE i \in hits : \A k \in hits : k <= i
    IN  IF hits = {} THEN <<content, changed>>
        ELSE <<Rule(fixes[last], content), TRUE>>

(* eslint-helper.py 173-179: the general fixes, folded over the content.   *)
RECURSIVE GeneralFixes(_, _, _)
GeneralFixes(fixes, content, changed) ==
    IF fixes = <<>> THEN <<content, changed>>
    ELSE LET new_content == Rule(Head(fixes), content)
         IN  GeneralFixes(Tail(fixes), new_content,
                          changed \/ new_content # content)

(* Variant of apply_parsing_fixes whose changes_made starts out True.       *)
ParsingFixesFlagSet(content) ==
    LET fixed == Rule(line_fix, content)
    IN  GeneralFixes(parsing_fixes, fixed, TRUE)

(* eslint-helper.py 131-179: what apply_parsing_fixes computes from the    *)
(* content it read: <<content to write, changes_made>>.                    *)
ParsingFixes(content) ==
    LET fixed == Rule(line_fix, content)
    IN  GeneralFixes(parsing_fixes, fixed, fixed # content)

(* eslint-automation.py 176-210: fix_parsing_errors' new_content.          *)
FixParsingErrorsContent(content) == Rule(line_fix, content)

(* eslint-automation.py 152-158: apply_common_fixes' content.              *)
CommonFixesContent(content) == GeneralFixes(parsing_fixes, content, FALSE)[1]

---------------------------------------------------------------------------
(* Environment *)

Outcomes == IF io_faults THEN {TRUE, FALSE} ELSE {TRUE}

(* Whether a call of get_file_errors obtains output it can parse           *)
(* (eslint-helper.py 97-123, eslint-automation.py 104-123).                *)
MeasureOutcomes == IF lint_faults THEN {TRUE, FALSE} ELSE {TRUE}

(* get_file_errors: len() of the list it returns; [] when it failed.       *)
ErrorCount(ok, content) == IF ok THEN lint[content] ELSE 0

(* What a write or copy that failed part-way may leave in the target.      *)
PartialContents == Contents

---------------------------------------------------------------------------
(* A session called on its own (test_single_file): no run around it.       *)
NoParse == lint_output = <<>> /\ errors = <<>>

NoRun ==
    /\ run_pc = "off"
    /\ project = [f \in Files |-> 0]
    /\ backups = [f \in Files |-> NoBackup]
    /\ problem_files = <<>>
    /\ file_index = 0
    /\ file_path = NoFile
    /\ records = <<>>
    /\ total_files_improved = 0
    /\ total_errors_fixed = 0
    /\ printed = {}

InitCommon ==
    /\ NoRun
    /\ NoParse
    /\ tool \in {"helper", "automation"}
    /\ lint \in [Contents -> Counts]
    /\ \E t \in RuleTables : line_fix = t[1] /\ parsing_fixes = t[2]
    /\ file_content = 0
    /\ backup = NoBackup
    /\ pc = "start"
    /\ iteration = 0
    /\ initial_error_count = 0
    /\ current_error_count = 0
    /\ changes_made = FALSE
    /\ iteration_changes = FALSE
    /\ result = NoResult
    /\ exit = "none"
    /\ snapshot = 0
    /\ backups_created = 0
    /\ written = FALSE
    /\ adapter_calls = 0
    /\ io_failed = FALSE
    /\ last_written = file_content

Init == InitCommon /\ io_faults = TRUE /\ lint_faults = TRUE

InitNoFault == InitCommon /\ io_faults = FALSE /\ lint_faults = FALSE

(* Every file operation succeeds; a checker call may yield nothing usable. *)
InitUnparseable == InitCommon /\ io_faults = FALSE /\ lint_faults = TRUE

Static == <<tool, io_faults, lint_faults, lint, line_fix, parsing_fixes>>

---------------------------------------------------------------------------
(* ESLintHelper.clean_file_automatically                                   *)

(* Variant of the guard that admits one more pass.                         *)
LoopGuardOffByOne == iteration <= max_iterations

(* 249: the loop guard.                                                    *)
LoopGuard == iteration < max_iterations

(* 250: iteration += 1.                                                    *)
NextIteration == iteration + 1

(* Variant in which iteration 1 reuses the measurement of line 234.         *)
MeasuredAfterFirst ==
    IF iteration = 0 THEN adapter_calls ELSE adapter_calls + 1

(* 254: get_file_errors at the top of every iteration: the number of       *)
(* adapter invocations after it.                                           *)
MeasuredAtTop == adapter_calls + 1

(* Variant of the top-of-loop test that also rejects an unchanged count.   *)
CountNotDecreased(current) == current >= initial_error_count

(* 262: the top-of-loop regression test.                                   *)
CountIncreased(current) == current > initial_error_count

(* Variant of the post-fix test that also rejects an unchanged count.      *)
FixesDidNotHelp(post_fix_count) == post_fix_count >= current_error_count

(* 286: the post-fix regression test.                                      *)
FixesCreatedMoreErrors(post_fix_count) == post_fix_count > current_error_count

(* Variant without the early return for a clean file.                      *)
NeverClean(n) == FALSE

(* 239: the test for a file that is already clean.                         *)
AlreadyClean(n) == n = 0

(* Variant of restore_backup that copies nothing back.                     *)
NothingRestored == file_content

(* 226: shutil.copy2(backup_path, file_path): what the file holds after.   *)
RestoredContent == backup

(* Variant that reports the count of the current iteration.               *)
RevertResultCurrent == <<initial_error_count, current_error_count>>

(* 266, 290, 317: the tuple returned by the reverting exits.               *)
RevertResult == <<initial_error_count, initial_error_count>>

(* Variant of the final block that leaves the backup in place.             *)
BackupLeftBehind == backup

(* 305-307: the backup after the clean-up of the final block.              *)
BackupAfterCleanup == NoBackup

(* Variant in which an exhausted loop reverts.                              *)
AfterLoopRevert == "revert"

(* 292: where control continues when the while loop ends without break.    *)
AfterLoop == "final"

(* Variant that takes a new backup after every accepted iteration.        *)
BackupPerIteration ==
    /\ backup' = file_content
    /\ backups_created' = backups_created + 1

(* 286-290: an accepted iteration goes on to the next one with the backup  *)
(* of the session as it is; the loop body never calls create_backup.       *)
AcceptedIteration == UNCHANGED <<backup, backups_created>>

(* Variant that enters the loop without taking the backup.                 *)
StraightToLoop == "loop"

(* 243-244: where a file with diagnostics goes after the initial           *)
(* measurement: to create_backup, before any change.                       *)
BeforeAnyChanges == "backup"

(* 233-245: initial measurement; a clean file returns at once.             *)
GetInitialErrors ==
    /\ tool = "helper"
    /\ pc = "start"
    /\ \E ok \in MeasureOutcomes :
         LET n == ErrorCount(ok, file_content)
         IN  /\ initial_error_count' = n
             /\ IF AlreadyClean(n)
                THEN /\ result' = <<0, 0>>
                     /\ pc' = "done"
                     /\ exit' = "already_clean"
                ELSE /\ pc' = BeforeAnyChanges
                     /\ UNCHANGED <<result, exit>>
    /\ adapter_calls' = adapter_calls + 1
    /\ snapshot' = file_content
    /\ UNCHANGED <<Static, ParserVars, RunVars, file_content, backup, iteration, current_error_count,
                   changes_made, iteration_changes, backups_created, written,
                   io_failed, last_written>>

(* 244 with 218-222: create_backup, called outside the try block, so a     *)
(* failed copy propagates out of the method.                               *)
CreateBackup ==
    /\ tool = "helper"
    /\ pc = "backup"
    /\ \E ok \in Outcomes :
         IF ok
         THEN /\ backup' = file_content
              /\ backups_created' = backups_created + 1
              /\ pc' = "loop"
              /\ UNCHANGED <<exit, io_failed>>
         ELSE /\ \E p \in PartialContents \cup {NoBackup} : backup' = p
              /\ pc' = "raised"
              /\ exit' = "raised"
              /\ io_failed' = TRUE
              /\ UNCHANGED backups_created
    /\ iteration' = 0
    /\ UNCHANGED <<Static, ParserVars, RunVars, file_content, initial_error_count,
                   current_error_count, changes_made, iteration_changes,
                   result, snapshot, written, adapter_calls, last_written>>

(* 249-266: loop guard, measurement at the top of the loop, clean break    *)
(* and top-of-loop regression test.                                        *)
LoopTop ==
    /\ tool = "helper"
    /\ pc = "loop"
    /\ IF LoopGuard
       THEN /\ iteration' = NextIteration
            /\ adapter_calls' = MeasuredAtTop
            /\ \E ok \in MeasureOutcomes :
                 LET n == ErrorCount(ok, file_content)
                 IN  /\ current_error_count' = n
                     /\ io_failed' = (io_failed \/ ~ok)
                     /\ IF n = 0
                        THEN pc' = "final" /\ exit' = "clean"
                        ELSE IF CountIncreased(n)
                        THEN pc' = "revert" /\ exit' = "revert_top"
                        ELSE pc' = "apply" /\ UNCHANGED exit
       ELSE /\ pc' = AfterLoop
            /\ exit' = "ceiling"
            /\ UNCHANGED <<iteration, adapter_calls, current_error_count,
                           io_failed>>
    /\ UNCHANGED <<Static, ParserVars, RunVars, file_content, backup, initial_error_count,
                   changes_made, iteration_changes, result, snapshot,
                   backups_created, written, last_written>>

(* 275-278 with 125-191: apply_parsing_fixes and the break when it reports *)
(* no change.  Every exception inside apply_parsing_fixes is caught there  *)
(* and turned into the return value False.                                 *)
ApplyParsingFixes ==
    /\ tool = "helper"
    /\ pc = "apply"
    /\ \E read_ok \in Outcomes, write_ok \in Outcomes :
         LET fixes == ParsingFixes(file_content)
         IN  IF ~read_ok
             THEN /\ write_ok
                  /\ pc' = "final"
                  /\ exit' = "unchanged"
                  /\ io_failed' = TRUE
                  /\ UNCHANGED <<file_content, written, last_written>>
             ELSE IF ~fixes[2]
             THEN /\ write_ok
                  /\ pc' = "final"
                  /\ exit' = "unchanged"
                  /\ UNCHANGED <<file_content, written, last_written, io_failed>>
             ELSE IF write_ok
             THEN /\ file_content' = fixes[1]
                  /\ last_written' = fixes[1]
                  /\ written' = TRUE
                  /\ pc' = "postfix"
                  /\ UNCHANGED <<exit, io_failed>>
             ELSE /\ \E p \in PartialContents : file_content' = p
                  /\ written' = TRUE
                  /\ pc' = "final"
                  /\ exit' = "unchanged"
                  /\ io_failed' = TRUE
                  /\ UNCHANGED last_written
    /\ UNCHANGED <<Static, ParserVars, RunVars, backup, iteration, initial_error_count,
                   current_error_count, changes_made, iteration_changes,
                   result, snapshot, backups_created, adapter_calls>>

(* 283-290: measurement after the fix and the post-fix regression test.    *)
PostFixCheck ==
    /\ tool = "helper"
    /\ pc = "postfix"
    /\ adapter_calls' = adapter_calls + 1
    /\ \E ok \in MeasureOutcomes :
         LET post_fix_count == ErrorCount(ok, file_content)
         IN  /\ io_failed' = (io_failed \/ ~ok)
             /\ IF FixesCreatedMoreErrors(post_fix_count)
                THEN /\ pc' = "revert"
                     /\ exit' = "revert_post"
                     /\ UNCHANGED <<backup, backups_created>>
                ELSE /\ pc' = "loop"
                     /\ AcceptedIteration
                     /\ UNCHANGED exit
    /\ UNCHANGED <<Static, ParserVars, RunVars, file_content, iteration,
                   initial_error_count, current_error_count, changes_made,
                   iteration_changes, result, snapshot, written, last_written>>

(* Variant in which the return after restore_backup is missing.            *)
FallThroughToFinal == "final"

(* 266, 290: the return that follows restore_backup at once.               *)
ReturnAfterRestore == "done"

(* 265-266 and 289-290 with 224-227: restore_backup, then return           *)
(* (initial, initial).  A failed copy raises into the except branch.       *)
RestoreBackup ==
    /\ tool = "helper"
    /\ pc = "revert"
    /\ \E ok \in Outcomes :
         IF ok
         THEN /\ file_content' = RestoredContent
              /\ backup' = NoBackup
              /\ result' = RevertResult
              /\ pc' = ReturnAfterRestore
              /\ UNCHANGED io_failed
         ELSE /\ \E p \in PartialContents : file_content' = p
              /\ pc' = "except"
              /\ io_failed' = TRUE
              /\ UNCHANGED <<backup, result>>
    /\ UNCHANGED <<Static, ParserVars, RunVars, iteration, initial_error_count, current_error_count,
                   changes_made, iteration_changes, exit, snapshot,
                   backups_created, written, adapter_calls, last_written>>

(* 292-309: final measurement, removal of the backup, return.              *)
FinalResults ==
    /\ tool = "helper"
    /\ pc = "final"
    /\ adapter_calls' = adapter_calls + 1
    /\ \E ok \in MeasureOutcomes :
         LET final_error_count == ErrorCount(ok, file_content)
         IN  /\ result' = <<initial_error_count, final_error_count>>
             /\ io_failed' = (io_failed \/ ~ok)
    /\ backup' = BackupAfterCleanup
    /\ pc' = "done"
    /\ UNCHANGED <<Static, ParserVars, RunVars, file_content, iteration, initial_error_count,
                   current_error_count, changes_made, iteration_changes, exit,
                   snapshot, backups_created, written, last_written>>

(* 311-317: the except branch: restore the backup if it exists, return     *)
(* (initial, initial).  A copy that fails here propagates.                 *)
ExceptHandler ==
    /\ tool = "helper"
    /\ pc = "except"
    /\ IF backup # NoBackup
       THEN \E ok \in Outcomes :
              IF ok
              THEN /\ file_content' = RestoredContent
                   /\ backup' = NoBackup
                   /\ result' = RevertResult
                   /\ pc' = "done"
                   /\ exit' = "handler"
              ELSE /\ \E p \in PartialContents : file_content' = p
                   /\ pc' = "raised"
                   /\ exit' = "raised"
                   /\ UNCHANGED <<backup, result>>
       ELSE /\ result' = RevertResult
            /\ pc' = "done"
            /\ exit' = "handler"
            /\ UNCHANGED <<file_content, backup>>
    /\ UNCHANGED <<Static, ParserVars, RunVars, iteration, initial_error_count, current_error_count,
                   changes_made, iteration_changes, snapshot, backups_created,
                   written, adapter_calls, io_failed, last_written>>

---------------------------------------------------------------------------
(* ESLintAutomation.clean_single_file                                      *)

(* 234: the loop guard.                                                    *)
AutoLoopGuard == iteration < clean_single_file_max_iterations

(* 235: iterations += 1.                                                   *)
AutoNextIteration == iteration + 1

(* 221-232: initial measurement; a clean file returns (True, 0, 0).        *)
AutoGetInitialErrors ==
    /\ tool = "automation"
    /\ pc = "start"
    /\ \E ok \in MeasureOutcomes :
         LET initial_count == ErrorCount(ok, file_content)
         IN  /\ initial_error_count' = initial_count
             /\ IF initial_count = 0
                THEN /\ result' = <<TRUE, 0, 0>>
                     /\ pc' = "done"
                     /\ exit' = "already_clean"
                ELSE /\ pc' = "a_loop"
                     /\ UNCHANGED <<result, exit>>
    /\ adapter_calls' = adapter_calls + 1
    /\ snapshot' = file_content
    /\ changes_made' = FALSE
    /\ iteration' = 0
    /\ UNCHANGED <<Static, ParserVars, RunVars, file_content, backup, current_error_count,
                   iteration_changes, backups_created, written, io_failed,
                   last_written>>

(* 234-244: loop guard, measurement at the top of the loop, clean break.   *)
AutoLoopTop ==
    /\ tool = "automation"
    /\ pc = "a_loop"
    /\ IF AutoLoopGuard
       THEN /\ iteration' = AutoNextIteration
            /\ iteration_changes' = FALSE
            /\ adapter_calls' = adapter_calls + 1
            /\ \E ok \in MeasureOutcomes :
                 LET n == ErrorCount(ok, file_content)
                 IN  /\ current_error_count' = n
                     /\ io_failed' = (io_failed \/ ~ok)
                     /\ IF n = 0
                        THEN pc' = "a_final" /\ exit' = "clean"
                        ELSE pc' = "a_parse" /\ UNCHANGED exit
       ELSE /\ pc' = "a_final"
            /\ exit' = "ceiling"
            /\ UNCHANGED <<iteration, iteration_changes, adapter_calls,
                           current_error_count, io_failed>>
    /\ UNCHANGED <<Static, ParserVars, RunVars, file_content, backup, initial_error_count,
                   changes_made, result, snapshot, backups_created, written,
                   last_written>>

(* 246-261: where clean_single_file continues after a rewrite step:       *)
(* apply_common_fixes follows fix_parsing_errors; after it, an iteration   *)
(* without changes ends the loop.                                          *)
AfterRewrite(last_step, changed) ==
    IF ~last_step THEN "a_common"
    ELSE IF changed THEN "a_loop" ELSE "a_final"

(* A rewrite step of ESLintAutomation: read_file, the new content, and     *)
(* write_file when it differs (125-142, 160-164, 209-214).  read_file and  *)
(* write_file catch their exceptions; the step then returns False.         *)
AutoRewrite(new_content, read_ok, write_ok, last_step) ==
    IF ~read_ok
    THEN /\ write_ok
         /\ io_failed' = TRUE
         /\ pc' = AfterRewrite(last_step, iteration_changes)
         /\ UNCHANGED <<file_content, written, last_written, changes_made,
                        iteration_changes>>
    ELSE IF new_content = file_content
    THEN /\ write_ok
         /\ pc' = AfterRewrite(last_step, iteration_changes)
         /\ UNCHANGED <<file_content, written, last_written, changes_made,
                        iteration_changes, io_failed>>
    ELSE IF write_ok
    THEN /\ file_content' = new_content
         /\ last_written' = new_content
         /\ written' = TRUE
         /\ iteration_changes' = TRUE
         /\ changes_made' = TRUE
         /\ pc' = AfterRewrite(last_step, TRUE)
         /\ UNCHANGED io_failed
    ELSE /\ \E p \in PartialContents : file_content' = p
         /\ written' = TRUE
         /\ io_failed' = TRUE
         /\ pc' = AfterRewrite(last_step, iteration_changes)
         /\ UNCHANGED <<last_written, changes_made, iteration_changes>>

(* 246-250 with 166-214: fix_parsing_errors.                               *)
AutoFixParsingErrors ==
    /\ tool = "automation"
    /\ pc = "a_parse"
    /\ \E read_ok \in Outcomes, write_ok \in Outcomes :
         AutoRewrite(FixParsingErrorsContent(file_content), read_ok, write_ok,
                     FALSE)
    /\ UNCHANGED <<Static, ParserVars, RunVars, backup, iteration, initial_error_count,
                   current_error_count, result, exit, snapshot,
                   backups_created, adapter_calls>>

(* 252-261 with 144-164: apply_common_fixes, then the no-change break.     *)
AutoApplyCommonFixes ==
    /\ tool = "automation"
    /\ pc = "a_common"
    /\ \E read_ok \in Outcomes, write_ok \in Outcomes :
         AutoRewrite(CommonFixesContent(file_content), read_ok, write_ok,
                     TRUE)
    /\ exit' = IF pc' = "a_final" THEN "unchanged" ELSE exit
    /\ UNCHANGED <<Static, ParserVars, RunVars, backup, iteration, initial_error_count,
                   current_error_count, result, snapshot, backups_created,
                   adapter_calls>>

(* 263-270: final measurement and return.                                  *)
AutoFinalResults ==
    /\ tool = "automation"
    /\ pc = "a_final"
    /\ adapter_calls' = adapter_calls + 1
    /\ \E ok \in MeasureOutcomes :
         LET final_count == ErrorCount(ok, file_content)
         IN  /\ result' = <<changes_made, initial_error_count, final_count>>
             /\ io_failed' = (io_failed \/ ~ok)
    /\ pc' = "done"
    /\ UNCHANGED <<Static, ParserVars, RunVars, file_content, backup, iteration,
                   initial_error_count, current_error_count, changes_made,
                   iteration_changes, exit, snapshot, backups_created, written,
                   last_written>>

---------------------------------------------------------------------------
Terminated == pc \in {"done", "raised"}

NextNoFault ==
    \/ GetInitialErrors
    \/ CreateBackup
    \/ LoopTop
    \/ ApplyParsingFixes
    \/ PostFixCheck
    \/ RestoreBackup
    \/ FinalResults
    \/ AutoGetInitialErrors
    \/ AutoLoopTop
    \/ AutoFixParsingErrors
    \/ AutoApplyCommonFixes
    \/ AutoFinalResults

Next ==
    \/ NextNoFault
    \/ ExceptHandler

(* Sessions with a failing environment. *)
Spec == Init /\ [][Next]_vars

(* Sessions in which no I/O operation fails. *)
SpecNoFault == InitNoFault /\ [][NextNoFault]_vars

(* Sessions in which only the checker's output may fail to parse. *)
SpecUnparseable == InitUnparseable /\ [][NextNoFault]_vars

(* The methods are straight-line synchronous code: a session that can take *)
(* a step takes it.                                                        *)
SpecFair == Spec /\ WF_vars(Next)

---------------------------------------------------------------------------
(* main and ESLintHelper.auto_fix_all_files: a project-wide run            *)

(* The content of file f on disk: the running session works on its file    *)
(* through file_content and backup, every other file is as project and     *)
(* backups have it.                                                        *)
Disk(f) ==
    IF run_pc = "session" /\ f = file_path THEN file_content ELSE project[f]

BackupOnDisk(f) ==
    IF run_pc = "session" /\ f = file_path THEN backup ELSE backups[f]

Range(seq) == {seq[i] : i \in 1..Len(seq)}

RECURSIVE LintTotal(_)
LintTotal(S) ==
    IF S = {} THEN 0
    ELSE LET f == CHOOSE x \in S : TRUE
         IN  lint[project[f]] + LintTotal(S \ {f})

(* 53-74: run_lint_count: the number of the "N problems" line, 0 when the  *)
(* checker could not be run (except branch) or reports nothing.            *)
RunLintCount(ok) == IF ok THEN LintTotal(Files) ELSE 0

(* The files the checker's output has a header line for.                   *)
ProblemSet == {f \in Files : lint[project[f]] > 0}

(* 205-210: the header lines found in the output; a file may be named more *)
(* than once.                                                              *)
HeaderLines(P) ==
    {h \in UNION {[1..n -> P] : n \in 0..(Cardinality(P) + 1)} : Range(h) = P}

(* Variant of get_problem_files that returns the header lines as found.    *)
ListingsWithDuplicates(files) == {files}

(* 212: list(set(files)): every path once, in an order the set decides.    *)
Listings(files) ==
    {l \in [1..Cardinality(Range(files)) -> Range(files)] :
        Range(l) = Range(files)}

(* 338-346: the message auto_fix_all_files prints for a returned pair.     *)
Verdict(before, after) ==
    IF after < before THEN "IMPROVED"
    ELSE IF after = 0 THEN "Already clean"
    ELSE "No automatic fixes possible"

(* The locals of clean_file_automatically outside a call of it.            *)
NoSession ==
    /\ pc' = "idle"
    /\ file_content' = 0
    /\ backup' = NoBackup
    /\ iteration' = 0
    /\ initial_error_count' = 0
    /\ current_error_count' = 0
    /\ result' = NoResult
    /\ exit' = "none"
    /\ snapshot' = 0
    /\ backups_created' = 0
    /\ written' = FALSE
    /\ adapter_calls' = 0
    /\ io_failed' = FALSE
    /\ last_written' = 0
    /\ UNCHANGED <<changes_made, iteration_changes>>

SessionVars ==
    <<file_content, backup, pc, iteration, initial_error_count,
      current_error_count, changes_made, iteration_changes, result, exit,
      snapshot, backups_created, written, adapter_calls, io_failed,
      last_written>>

(* The checkers the runs are made with: a diagnostic more with every      *)
(* rewrite, one less with every rewrite, always one, a dip before the last *)
(* content, a peak at content 1.                                           *)
RunLints ==
    { [c \in Contents |-> IF c < MaxCount THEN c + 1 ELSE MaxCount],
      [c \in Contents |-> IF MaxContent - c < MaxCount
                          THEN MaxContent - c ELSE MaxCount],
      [c \in Contents |-> 1],
      [c \in Contents |-> IF c = MaxContent THEN MaxCount
                          ELSE IF c = 0 THEN 2 ELSE 1],
      [c \in Contents |-> IF c = 1 THEN 2 ELSE 1] }

(* The rule tables the runs are made with: one rule, no line fix.          *)
RunTables == {t \in RuleTables : t[1] = "none" /\ t[2][2] = "none"}

InitRunCommon ==
    /\ NoParse
    /\ tool = "helper"
    /\ lint \in RunLints
    /\ \E t \in RunTables : line_fix = t[1] /\ parsing_fixes = t[2]
    /\ run_pc = "main"
    /\ project \in [Files -> Contents]
    /\ backups = [f \in Files |-> NoBackup]
    /\ problem_files = <<>>
    /\ file_index = 0
    /\ file_path = NoFile
    /\ records = <<>>
    /\ total_files_improved = 0
    /\ total_errors_fixed = 0
    /\ printed = {}
    /\ pc = "idle"
    /\ file_content = 0
    /\ backup = NoBackup
    /\ iteration = 0
    /\ initial_error_count = 0
    /\ current_error_count = 0
    /\ changes_made = FALSE
    /\ iteration_changes = FALSE
    /\ result = NoResult
    /\ exit = "none"
    /\ snapshot = 0
    /\ backups_created = 0
    /\ written = FALSE
    /\ adapter_calls = 0
    /\ io_failed = FALSE
    /\ last_written = 0

InitRun == InitRunCommon /\ io_faults = TRUE /\ lint_faults = TRUE

InitRunNoFault == InitRunCommon /\ io_faults = FALSE /\ lint_faults = FALSE

(* What run_lint_count prints when the checker could not be run (72-74).   *)
LintCountMessages(ok) == IF ok THEN {} ELSE {"Error getting lint count"}

(* 367-382: main: the current status; a count of 0 ends the run.           *)
Main ==
    /\ run_pc = "main"
    /\ \E ok \in MeasureOutcomes :
         LET current_problems == RunLintCount(ok)
         IN  /\ printed' =
                   printed
                   \cup LintCountMessages(ok)
                   \cup (IF current_problems = 0
                         THEN {"No problems found! Project is clean."}
                         ELSE {})
             /\ run_pc' = IF current_problems = 0 THEN "end" ELSE "confirm"
    /\ UNCHANGED <<Static, ParserVars, SessionVars, project, backups, problem_files,
                   file_index, file_path, records, total_files_improved,
                   total_errors_fixed>>

(* 384-403: the list shown to the user and the confirmation.               *)
MainConfirm ==
    /\ run_pc = "confirm"
    /\ \E choice \in {"y", "n"} :
         IF choice # "y"
         THEN /\ printed' = printed \cup {"Cancelled by user"}
              /\ run_pc' = "end"
         ELSE /\ run_pc' = "auto_fix"
              /\ UNCHANGED printed
    /\ UNCHANGED <<Static, ParserVars, SessionVars, project, backups, problem_files,
                   file_index, file_path, records, total_files_improved,
                   total_errors_fixed>>

(* 319-331: auto_fix_all_files up to its loop.  The value of initial_total *)
(* (324) only feeds print statements and is not kept.                      *)
AutoFixAllFiles ==
    /\ run_pc = "auto_fix"
    /\ \E count_ok \in MeasureOutcomes, ok \in MeasureOutcomes :
         IF ok
         THEN /\ \E files \in HeaderLines(ProblemSet) :
                   problem_files' \in Listings(files)
              /\ printed' = printed \cup LintCountMessages(count_ok)
         ELSE /\ problem_files' = <<>>
              /\ printed' = printed \cup LintCountMessages(count_ok)
                                    \cup {"Error getting problem files"}
    /\ total_files_improved' = 0
    /\ total_errors_fixed' = 0
    /\ file_index' = 0
    /\ run_pc' = "for"
    /\ UNCHANGED <<Static, ParserVars, SessionVars, project, backups, file_path, records>>

(* 333-336: the for loop: the next file, if any, gets its session.         *)
ForEachFile ==
    /\ run_pc = "for"
    /\ IF file_index < Len(problem_files)
       THEN /\ file_index' = file_index + 1
            /\ file_path' = problem_files[file_index + 1]
            /\ run_pc' = "session"
            /\ pc' = "start"
            /\ file_content' = project[problem_files[file_index + 1]]
            /\ last_written' = project[problem_files[file_index + 1]]
            /\ backup' = backups[problem_files[file_index + 1]]
       ELSE /\ run_pc' = "total"
            /\ UNCHANGED <<file_index, file_path, pc, file_content,
                           last_written, backup>>
    /\ UNCHANGED <<Static, ParserVars, iteration, initial_error_count,
                   current_error_count, changes_made, iteration_changes,
                   result, exit, snapshot, backups_created, written,
                   adapter_calls, io_failed, project, backups, problem_files,
                   records, total_files_improved, total_errors_fixed, printed>>

(* 336-350: the session has returned (before, after): verdict and totals.  *)
RecordSession ==
    /\ run_pc = "session"
    /\ pc = "done"
    /\ LET before == result[1]
           after == result[2]
       IN  /\ records' = Append(records,
                                [file |-> file_path,
                                 before |-> before,
                                 after |-> after,
                                 verdict |-> Verdict(before, after),
                                 exit |-> exit,
                                 left |-> file_content])
           /\ IF after < before
              THEN /\ total_files_improved' = total_files_improved + 1
                   /\ total_errors_fixed' = total_errors_fixed + (before - after)
              ELSE UNCHANGED <<total_files_improved, total_errors_fixed>>
    /\ project' = [project EXCEPT ![file_path] = file_content]
    /\ backups' = [backups EXCEPT ![file_path] = backup]
    /\ run_pc' = "for"
    /\ NoSession
    /\ UNCHANGED <<Static, ParserVars, problem_files, file_index, file_path, printed>>

(* 244 and 316: an exception that leaves clean_file_automatically is       *)
(* caught nowhere: it ends auto_fix_all_files and main.                    *)
SessionRaised ==
    /\ run_pc = "session"
    /\ pc = "raised"
    /\ project' = [project EXCEPT ![file_path] = file_content]
    /\ backups' = [backups EXCEPT ![file_path] = backup]
    /\ run_pc' = "crashed"
    /\ printed' = printed \cup {"Traceback"}
    /\ NoSession
    /\ UNCHANGED <<Static, ParserVars, problem_files, file_index, file_path, records,
                   total_files_improved, total_errors_fixed>>

(* 352-365: the final results.  The values of final_total and              *)
(* actual_reduction only feed print statements and are not kept.           *)
FinalTotals ==
    /\ run_pc = "total"
    /\ run_pc' = "end"
    /\ \E ok \in MeasureOutcomes :
         printed' = printed \cup LintCountMessages(ok) \cup {"FINAL RESULTS"}
    /\ UNCHANGED <<Static, ParserVars, SessionVars, project, backups, problem_files,
                   file_index, file_path, records, total_files_improved,
                   total_errors_fixed>>

NextRunNoFault ==
    \/ Main
    \/ MainConfirm
    \/ AutoFixAllFiles
    \/ ForEachFile
    \/ RecordSession
    \/ FinalTotals
    \/ GetInitialErrors
    \/ CreateBackup
    \/ LoopTop
    \/ ApplyParsingFixes
    \/ PostFixCheck
    \/ RestoreBackup
    \/ FinalResults

NextRun ==
    \/ NextRunNoFault
    \/ SessionRaised
    \/ ExceptHandler

(* A project-wide run of the helper, started from main. *)
SpecRun == InitRun /\ [][NextRun]_vars

(* A project-wide run in which no I/O operation and no checker call fails. *)
SpecRunNoFault == InitRunNoFault /\ [][NextRunNoFault]_vars

---------------------------------------------------------------------------
(* ESLintHelper.apply_parsing_fixes called twice in a row on one file with *)
(* the same diagnostics.                                                   *)

InitApply ==
    /\ NoRun
    /\ NoParse
    /\ tool = "helper"
    /\ io_faults = TRUE
    /\ lint_faults = TRUE
    /\ lint \in [Contents -> Counts]
    /\ \E t \in RuleTables : line_fix = t[1] /\ parsing_fixes = t[2]
    /\ file_content \in Contents
    /\ backup = NoBackup
    /\ pc = "call1"
    /\ iteration = 0
    /\ initial_error_count = lint[file_content]
    /\ current_error_count = lint[file_content]
    /\ changes_made = FALSE
    /\ iteration_changes = FALSE
    /\ result = NoResult
    /\ exit = "none"
    /\ snapshot = file_content
    /\ backups_created = 0
    /\ written = FALSE
    /\ adapter_calls = 0
    /\ io_failed = FALSE
    /\ last_written = file_content

(* 125-191: one call of apply_parsing_fixes; changes_made is the value it  *)
(* returns and written tells whether this call opened the file for         *)
(* writing.                                                                *)
CallApplyParsingFixes ==
    /\ pc \in {"call1", "call2"}
    /\ pc' = IF pc = "call1" THEN "call2" ELSE "called"
    /\ \E read_ok \in Outcomes, write_ok \in Outcomes :
         LET fixes == ParsingFixes(file_content)
         IN  IF ~read_ok
             THEN /\ write_ok
                  /\ changes_made' = FALSE
                  /\ written' = FALSE
                  /\ io_failed' = TRUE
                  /\ UNCHANGED <<file_content, last_written>>
             ELSE IF ~fixes[2]
             THEN /\ write_ok
                  /\ changes_made' = FALSE
                  /\ written' = FALSE
                  /\ UNCHANGED <<file_content, last_written, io_failed>>
             ELSE IF write_ok
             THEN /\ file_content' = fixes[1]
                  /\ last_written' = fixes[1]
                  /\ changes_made' = TRUE
                  /\ written' = TRUE
                  /\ UNCHANGED io_failed
             ELSE /\ \E p \in PartialContents : file_content' = p
                  /\ changes_made' = FALSE
                  /\ written' = TRUE
                  /\ io_failed' = TRUE
                  /\ UNCHANGED last_written
    /\ UNCHANGED <<Static, ParserVars, RunVars, backup, iteration, initial_error_count,
                   current_error_count, iteration_changes, result, exit,
                   snapshot, backups_created, adapter_calls>>

NextApply == CallApplyParsingFixes

SpecApply == InitApply /\ [][NextApply]_vars

---------------------------------------------------------------------------
(* Properties of the sessions *)

Helper == tool = "helper"

Returned == pc = "done"

Reverting == {"revert_top", "revert_post", "handler"}

InSession == {"loop", "apply", "postfix", "revert", "final", "except"}

(* C1: when a session of clean_file_automatically ends, by any exit, the   *)
(* file has no more diagnostics than the initial_count measured at the     *)
(* start of the session (the initial measurement being the count of the    *)
(* content the session started with).                                      *)
NoRegression ==
    (Helper /\ Returned /\ initial_error_count = lint[snapshot])
        => lint[file_content] <= initial_error_count

(* C2: every started session reaches a terminal outcome, after at most     *)
(* max_iterations passes of its loop: 20 in clean_file_automatically, 10   *)
(* in clean_single_file, also with a rule table that cycles forever.       *)
Termination ==
    /\ <>Terminated
    /\ [](Helper => iteration <= 20)
    /\ [](~Helper => iteration <= 10)

TerminationWitness ==
    /\ Returned
    /\ exit = "ceiling"
    /\ parsing_fixes = <<"swap", "none">>
    /\ iteration = IF Helper THEN 20 ELSE 10

(* C3: whenever clean_file_automatically ends by reverting (top-of-loop    *)
(* regression, post-fix regression or the exception handler), the file     *)
(* holds exactly the content it had when the snapshot was taken.           *)
RevertCorrectness ==
    (Helper /\ Returned /\ exit \in Reverting) => file_content = snapshot

RevertCorrectnessWitness ==
    /\ Helper /\ Returned
    /\ exit = "revert_post"
    /\ iteration >= 3
    /\ last_written # snapshot
    /\ file_content = snapshot

(* C4: if a read, write, copy or measurement fails after the snapshot was  *)
(* taken, the file is restored to the snapshot content before the session  *)
(* ends.                                                                   *)
FailureSafety ==
    (Helper /\ Returned /\ io_failed) => file_content = snapshot

(* C5: if the first measurement reports 0 diagnostics, the session returns *)
(* (0, 0) with no write, no backup, no rewrite and no further adapter      *)
(* call, the file content being what it was.                               *)
CleanFileUntouched ==
    (Helper /\ pc # "start" /\ initial_error_count = 0)
        => /\ Returned
           /\ result = <<0, 0>>
           /\ ~written
           /\ backups_created = 0
           /\ backup = NoBackup
           /\ adapter_calls = 1
           /\ iteration = 0
           /\ file_content = snapshot

CleanFileUntouchedWitness ==
    Helper /\ Returned /\ exit = "already_clean" /\ lint[file_content] = 0

(* C6: in a session with initial_count > 0 the backup is created exactly   *)
(* once, before the loop, and its content never changes between its        *)
(* creation and its restoration or deletion.                               *)
SingleSnapshot ==
    /\ [](backups_created <= 1)
    /\ []((Helper /\ pc \in InSession) => backups_created = 1)
    /\ []((Helper /\ pc \in InSession /\ backup # NoBackup) => backup = snapshot)
    /\ [][(backup # NoBackup /\ backup' # NoBackup) => backup' = backup]_vars

SingleSnapshotWitness ==
    /\ Helper
    /\ pc = "loop"
    /\ iteration >= 2
    /\ backups_created = 1
    /\ backup = snapshot
    /\ file_content # backup

(* C7: at the end of every session the file is its original content or    *)
(* content with strictly fewer diagnostics than initial_count; it is never *)
(* different content with the same number of diagnostics.                  *)
FinalStateTrichotomy ==
    (Helper /\ Returned)
        => \/ file_content = snapshot
           \/ lint[file_content] < initial_error_count

(* C8: every reverting exit returns (initial_count, initial_count), also   *)
(* when the count first went down and then up (2, then 1, then 3).         *)
RevertReturnsInitial ==
    (Helper /\ Returned /\ exit \in Reverting)
        => result = <<initial_error_count, initial_error_count>>

RevertReturnsInitialWitness ==
    /\ Helper /\ Returned
    /\ exit = "revert_post"
    /\ iteration = 2
    /\ initial_error_count = 2
    /\ current_error_count = 1
    /\ lint[last_written] = 3
    /\ result = <<2, 2>>

(* C9: whenever clean_file_automatically returns, no backup of the file    *)
(* remains; a backup exists only between the snapshot step and the return. *)
BackupTransient ==
    /\ (Helper /\ Returned) => backup = NoBackup
    /\ (Helper /\ backup # NoBackup) => pc \in InSession \cup {"raised"}

BackupTransientWitness ==
    Helper /\ Returned /\ exit = "handler" /\ backups_created = 1

(* C10: when the loop ends because iteration reached max_iterations, the   *)
(* session does not revert: the file holds the content written by the last *)
(* rewrite, the backup is deleted and the result is (initial_count, count  *)
(* measured on that content).                                              *)
CeilingKeepsProgress ==
    (Helper /\ Returned /\ exit = "ceiling")
        => /\ iteration = max_iterations
           /\ file_content = last_written
           /\ backup = NoBackup
           /\ \E ok \in MeasureOutcomes :
                result = <<initial_error_count, ErrorCount(ok, file_content)>>

CeilingKeepsProgressWitness ==
    /\ Helper /\ Returned
    /\ exit = "ceiling"
    /\ file_content # snapshot
    /\ result = <<initial_error_count, lint[file_content]>>

(* C11: an iteration whose rewrite step reports changed = false writes     *)
(* nothing: the step leaves the file as the iteration found it, the loop   *)
(* ends at once without reverting, and the file still holds that content   *)
(* when the session returns.                                               *)
NoFixLeavesFileAlone ==
    [][/\ (Helper /\ pc = "apply" /\ pc' # "postfix")
            => /\ pc' = "final"
               /\ exit' = "unchanged"
               /\ file_content' = file_content
               /\ written' = written
       /\ (Helper /\ pc = "final" /\ exit = "unchanged")
            => /\ pc' = "done"
               /\ file_content' = file_content]_vars

(* C17: when clean_single_file returns (changes_made, initial_count,       *)
(* final_count), final_count <= initial_count and the file has no more     *)
(* diagnostics than initial_count.                                         *)
AutomationNoRegression ==
    (~Helper /\ Returned)
        => /\ result[3] <= result[2]
           /\ lint[file_content] <= initial_error_count

(* C19 as stated: the first iteration reuses the initial measurement, so   *)
(* the adapter has been invoked once when the first rewrite step starts.   *)
FirstIterationReusesMeasurement ==
    (Helper /\ pc = "apply" /\ iteration = 1) => adapter_calls = 1

(* C19: every iteration, the first included, invokes the adapter at the    *)
(* top of the loop: the rewrite step of iteration k starts after 2k        *)
(* invocations (the initial one, k at the top of the loop, k - 1 after a   *)
(* fix), 2 of them before the first rewrite.                              *)
EveryIterationMeasures ==
    /\ []((Helper /\ pc = "apply") => adapter_calls = 2 * iteration)
    /\ [][(Helper /\ pc = "loop" /\ iteration' # iteration)
             => adapter_calls' = adapter_calls + 1]_vars

EveryIterationMeasuresWitness ==
    /\ Helper
    /\ pc = "apply"
    /\ iteration = 1
    /\ ~written
    /\ adapter_calls = 2
    /\ current_error_count = initial_error_count

(* C20: in a session of clean_file_automatically no write to the file      *)
(* happens before the backup was created, and every step that writes the   *)
(* file (a rewrite, complete or not, or a restore) is taken while the      *)
(* backup exists and holds the content the session started with.           *)
SnapshotPrecedesMutation ==
    /\ []((Helper /\ written) => backups_created = 1)
    /\ [][(Helper /\ (\/ file_content' # file_content
                      \/ written' # written
                      \/ last_written' # last_written))
             => (backup # NoBackup /\ backup = snapshot)]_vars

SnapshotPrecedesMutationWitness ==
    /\ Helper
    /\ pc = "postfix"
    /\ iteration >= 2
    /\ written
    /\ backup = snapshot
    /\ file_content # snapshot

(* No line-targeted fix and no rule of the table matches the content.      *)
NoRuleMatches(content) ==
    /\ Rule(line_fix, content) = content
    /\ \A i \in 1..Len(parsing_fixes) : Rule(parsing_fixes[i], content) = content

(* C18: when a call of apply_parsing_fixes leaves content on which no rule *)
(* of the table and no line-targeted fix matches, the call that follows at *)
(* once with the same diagnostics returns False, does not open the file    *)
(* for writing and leaves the content as it is.                            *)
RewriteIdempotent ==
    [][(pc = "call2" /\ NoRuleMatches(file_content))
          => /\ ~changes_made'
             /\ ~written'
             /\ file_content' = file_content]_vars

RewriteIdempotentWitness ==
    /\ pc = "called"
    /\ NoRuleMatches(file_content)
    /\ file_content # snapshot
    /\ file_content = last_written
    /\ ~io_failed
    /\ ~changes_made
    /\ ~written

(* The initial measurement of the session came back without parseable      *)
(* diagnostics although the file has some.                                 *)
InitialUnparseable == pc # "start" /\ initial_error_count # lint[snapshot]

(* C14: a measurement whose output cannot be parsed counts as 0            *)
(* diagnostics and raises nothing, and once a measurement of a session was *)
(* unparseable no rewrite step of the session changes the file any more    *)
(* (putting the backup back is not counted).  Where only the checker can   *)
(* fail, io_failed says that a measurement after the snapshot step was     *)
(* unparseable.                                                            *)
UnparseableStopsMutation ==
    /\ [](pc \notin {"except", "raised"})
    /\ [][((io_failed \/ InitialUnparseable) /\ pc # "revert")
             => (file_content' = file_content /\ written' = written)]_vars

---------------------------------------------------------------------------
(* Properties of the project-wide run *)

(* What auto_fix_all_files holds against a session: the pair, the verdict  *)
(* and what the pair adds to the two totals.                               *)
Reported(r) ==
    <<r.before, r.after, r.verdict,
      IF r.after < r.before THEN r.before - r.after ELSE 0>>

(* C12: a session that ended by reverting is recorded and reported by      *)
(* auto_fix_all_files differently from a session of the same run that      *)
(* found no fix and had the same initial count.                            *)
RevertedIsReported ==
    \A i \in 1..Len(records), j \in 1..Len(records) :
        (/\ records[i].exit \in Reverting
         /\ records[j].exit = "unchanged"
         /\ records[i].before = records[j].before)
            => Reported(records[i]) # Reported(records[j])

(* C13: when run_lint_count could not run the checker, main does not       *)
(* report the project as clean and the run goes no further: no list of     *)
(* files, no session.                                                      *)
AdapterUnavailableIsFatal ==
    "Error getting lint count" \in printed
        => /\ "No problems found! Project is clean." \notin printed
           /\ run_pc \in {"end", "crashed"}
           /\ file_index = 0
           /\ records = <<>>

(* The files whose session was started, and those whose session returned   *)
(* to auto_fix_all_files.                                                  *)
Started == {problem_files[k] : k \in 1..file_index}

Recorded == {records[k].file : k \in 1..Len(records)}

(* C15: a session changes no file but its own and that file's backup, so   *)
(* every file an earlier session of the run returned from still holds the  *)
(* content that session left, whatever the later sessions do.              *)
PartialProgressPreserved ==
    /\ [](\A k \in 1..Len(records) : Disk(records[k].file) = records[k].left)
    /\ [][\A f \in Files :
            (run_pc = "session" /\ f # file_path)
                => /\ Disk(f)' = Disk(f)
                   /\ BackupOnDisk(f)' = BackupOnDisk(f)]_vars

PartialProgressPreservedWitness ==
    /\ run_pc = "session"
    /\ Len(records) = 1
    /\ records[1].verdict = "IMPROVED"
    /\ project[records[1].file] = records[1].left
    /\ pc = "done"
    /\ exit \in Reverting
    /\ written
    /\ io_failed

(* C16: at most one file of the run is between the start of its session    *)
(* and the session's return, and at most one backup exists in the project. *)
SessionsNeverOverlap ==
    /\ Cardinality(Started \ Recorded) <= 1
    /\ run_pc = "session" => Started \ Recorded = {file_path}
    /\ pc \in InSession => run_pc = "session"
    /\ Cardinality({f \in Files : BackupOnDisk(f) # NoBackup}) <= 1

SessionsNeverOverlapWitness ==
    /\ run_pc = "session"
    /\ Len(records) = 1
    /\ records[1].exit = "ceiling"
    /\ pc = "postfix"
    /\ backup # NoBackup
    /\ {f \in Files : BackupOnDisk(f) # NoBackup} = {file_path}

---------------------------------------------------------------------------
(* Further properties of the sessions *)

(* C21: the step that puts the backup back is followed by nothing but the  *)
(* return: it invokes no adapter and ends the session, and no step around  *)
(* a restore (of the loop or of the exception handler) measures or         *)
(* rewrites.  At the return the adapter has been invoked exactly as often  *)
(* as before the decision to revert.                                       *)
RevertIsTerminal ==
    /\ [][(Helper /\ pc = "revert" /\ pc' # "except")
             => /\ pc' = "done"
                /\ file_content' = snapshot
                /\ adapter_calls' = adapter_calls
                /\ last_written' = last_written]_vars
    /\ [][(Helper /\ pc \in {"revert", "except"})
             => /\ pc' \in {"done", "except", "raised"}
                /\ adapter_calls' = adapter_calls
                /\ last_written' = last_written
                /\ written' = written]_vars
    /\ []((Helper /\ Returned /\ exit = "revert_post")
             => adapter_calls = 2 * iteration + 1)
    /\ []((Helper /\ Returned /\ exit = "revert_top")
             => adapter_calls = 2 * iteration)

RevertIsTerminalWitness ==
    /\ Helper /\ Returned
    /\ exit = "revert_top"
    /\ iteration = 2
    /\ adapter_calls = 4
    /\ written
    /\ file_content = snapshot
    /\ backup = NoBackup

(* C22: after a rewrite that changed the file the session reverts exactly  *)
(* when the post-fix count is greater than the count of the top of the     *)
(* iteration; otherwise, an equal count with changed text included, the    *)
(* new content stays and the loop goes on.  The post-fix count is what the *)
(* measurement of line 283 returned.                                       *)
PostFixDecision ==
    [][(Helper /\ pc = "postfix")
          => \E ok \in MeasureOutcomes :
                LET post_fix_count == ErrorCount(ok, file_content)
                IN  /\ (pc' = "revert") <=> (post_fix_count > current_error_count)
                    /\ pc' # "revert"
                         => /\ pc' = "loop"
                            /\ file_content' = file_content
                            /\ backup' = backup
                            /\ exit' = exit]_vars

PostFixDecisionWitness ==
    /\ Helper
    /\ pc = "loop"
    /\ iteration = 1
    /\ ~io_failed
    /\ file_content = last_written
    /\ file_content # snapshot
    /\ lint[file_content] = current_error_count
    /\ backup = snapshot

---------------------------------------------------------------------------
(* Properties of the rewrite step *)

(* The content after the first n rules of a table, each applied once to    *)
(* the output of the one before.                                           *)
RECURSIVE LeftFold(_, _, _)
LeftFold(fixes, n, content) ==
    IF n = 0 THEN content
    ELSE Rule(fixes[n], LeftFold(fixes, n - 1, content))

---------------------------------------------------------------------------
(* get_file_errors on its own: what it returns for a checker output that   *)
(* lists diagnostics under one or several file headers.  The output is a   *)
(* sequence of sections, each a header path and the number of diagnostic   *)
(* lines under it; the returned list is modelled by the file each returned *)
(* diagnostic is attributed to.                                            *)

MaxSections == 2

(* Headers the checker may print: the .ts files and one file of another    *)
(* extension, whose header line the text parser does not recognise.        *)
OtherPaths == {"view.tsx"}
Paths == Files \cup OtherPaths
Sections == [path : Paths, count : Counts]

RECURSIVE OutputsOfLength(_)
OutputsOfLength(n) ==
    IF n = 0 THEN {<<>>}
    ELSE {<<sec>> \o out : sec \in Sections, out \in OutputsOfLength(n - 1)}

Outputs == UNION {OutputsOfLength(n) : n \in 0..MaxSections}

(* ESLintHelper.get_file_errors: a line ending in .ts becomes current_file *)
(* and every diagnostic line is appended under the current_file in force.  *)
RECURSIVE TextErrors(_, _)
TextErrors(output, current_file) ==
    IF output = <<>> THEN <<>>
    ELSE LET sec == Head(output)
             header == IF sec.path \in Files THEN sec.path ELSE current_file
         IN  (IF header # NoFile THEN [i \in 1..sec.count |-> header] ELSE <<>>)
                 \o TextErrors(Tail(output), header)

(* ESLintAutomation.get_file_errors: every message of every file_result is *)
(* appended with file_path set to the requested file.                      *)
RECURSIVE JsonErrors(_, _)
JsonErrors(output, requested) ==
    IF output = <<>> THEN <<>>
    ELSE [i \in 1..Head(output).count |-> requested] \o JsonErrors(Tail(output), requested)

GetFileErrors(output, requested) ==
    IF tool = "helper" THEN TextErrors(output, NoFile) ELSE JsonErrors(output, requested)

(* The diagnostics the output lists under the header of one file.          *)
RECURSIVE ListedUnder(_, _)
ListedUnder(output, path) ==
    IF output = <<>> THEN 0
    ELSE (IF Head(output).path = path THEN Head(output).count ELSE 0)
             + ListedUnder(Tail(output), path)

InitParse ==
    /\ tool \in {"helper", "automation"}
    /\ io_faults = FALSE
    /\ lint_faults = FALSE
    /\ lint = [c \in Contents |-> 0]
    /\ line_fix = "none"
    /\ parsing_fixes = <<"none", "none">>
    /\ file_content = 0
    /\ backup = NoBackup
    /\ pc = "parse"
    /\ iteration = 0
    /\ initial_error_count = 0
    /\ current_error_count = 0
    /\ changes_made = FALSE
    /\ iteration_changes = FALSE
    /\ result = NoResult
    /\ exit = "none"
    /\ snapshot = 0
    /\ backups_created = 0
    /\ written = FALSE
    /\ adapter_calls = 0
    /\ io_failed = FALSE
    /\ last_written = 0
    /\ run_pc = "off"
    /\ project = [f \in Files |-> 0]
    /\ backups = [f \in Files |-> NoBackup]
    /\ problem_files = <<>>
    /\ file_index = 0
    /\ file_path \in Files
    /\ records = <<>>
    /\ total_files_improved = 0
    /\ total_errors_fixed = 0
    /\ printed = {}
    /\ lint_output \in Outputs
    /\ errors = <<>>

(* One call get_file_errors(file_path) whose checker printed lint_output;  *)
(* the session takes len(errors) as its count.                             *)
ParseOutput ==
    /\ pc = "parse"
    /\ pc' = "parsed"
    /\ errors' = GetFileErrors(lint_output, file_path)
    /\ adapter_calls' = adapter_calls + 1
    /\ current_error_count' = Len(errors')
    /\ UNCHANGED <<Static, RunVars, lint_output, file_content, backup, iteration,
                   initial_error_count, changes_made, iteration_changes, result,
                   exit, snapshot, backups_created, written, io_failed, last_written>>

NextParse == ParseOutput

SpecParse == InitParse /\ [][NextParse]_vars

(* C24: get_file_errors(file) returns the diagnostics of that file only:   *)
(* when the output lists diagnostics under several file headers, every     *)
(* returned diagnostic belongs to the requested file, and the count the    *)
(* session takes is the number of diagnostics listed under that file.      *)
SingleFileErrors ==
    (/\ pc = "parsed"
     /\ \E i, j \in 1..Len(lint_output) :
           /\ lint_output[i].path # lint_output[j].path
           /\ lint_output[i].count > 0 /\ lint_output[j].count > 0)
    => /\ \A i \in 1..Len(errors) : errors[i] = file_path
       /\ current_error_count = ListedUnder(lint_output, file_path)

(* C25: with the count a function of the content and no failing I/O, the   *)
(* counts measured at the top of successive iterations never increase and  *)
(* never exceed initial_error_count, the top-of-loop check never fires,    *)
(* and every revert comes from the post-fix check.                         *)
TopCountsNonIncreasing ==
    /\ [][(Helper /\ pc = "loop" /\ iteration' # iteration)
             => /\ current_error_count' <= initial_error_count
                /\ iteration >= 1 => current_error_count' <= current_error_count
                /\ ~CountIncreased(current_error_count')
                /\ pc' # "revert"]_vars
    /\ [](Helper => exit # "revert_top")
    /\ []((Helper /\ pc = "revert") => exit = "revert_post")

(* A later iteration whose top-of-loop count is below the initial one.     *)
TopCountsNonIncreasingWitness ==
    /\ Helper /\ ~io_faults /\ ~lint_faults
    /\ pc = "apply" /\ iteration >= 2
    /\ current_error_count < initial_error_count

(* C26: the pair returned by clean_file_automatically is truthful: before  *)
(* is the diagnostic count of the content at session start, after is the   *)
(* diagnostic count of the content the file holds at return, on the        *)
(* reverting exits too, and so after <= before.                            *)
TruthfulPair ==
    (Helper /\ Returned)
        => /\ result[1] = lint[snapshot]
           /\ result[2] = lint[file_content]
           /\ result[2] <= result[1]

---------------------------------------------------------------------------
(* Further properties of a project-wide run *)

(* C27: in one run no path gets two sessions: problem_files names each     *)
(* path at most once, however often the checker's output named it, so no   *)
(* two sessions of the run have the same file or the same backup path.     *)
OneSessionPerPath ==
    /\ \A i, j \in 1..Len(problem_files) :
          problem_files[i] = problem_files[j] => i = j
    /\ \A i, j \in 1..Len(records) : records[i].file = records[j].file => i = j
    /\ run_pc = "session" => file_path \notin Recorded
    /\ Len(records) <= Cardinality(Files)

(* A run that has been through a session for each of two problem files.    *)
OneSessionPerPathWitness ==
    /\ run_pc = "total"
    /\ Len(problem_files) = 2
    /\ Len(records) = 2
    /\ records[1].file # records[2].file

(* 338-342 read over the sessions of the run so far: how many returned     *)
(* after < before, and what (before - after) adds up to over those.        *)
RECURSIVE ImprovedSessions(_)
ImprovedSessions(n) ==
    IF n = 0 THEN 0
    ELSE ImprovedSessions(n - 1)
            + (IF records[n].after < records[n].before THEN 1 ELSE 0)

RECURSIVE ErrorsFixed(_)
ErrorsFixed(n) ==
    IF n = 0 THEN 0
    ELSE ErrorsFixed(n - 1)
            + (IF records[n].after < records[n].before
               THEN records[n].before - records[n].after ELSE 0)

(* C28: after any sequence of sessions total_files_improved is the number  *)
(* of sessions that returned after < before and total_errors_fixed the sum *)
(* of (before - after) over those sessions; a session that reverted or     *)
(* found no fix adds nothing to either total; total_files_improved never   *)
(* exceeds the number of problem files.                                    *)
RunTotals ==
    /\ [](run_pc \in {"for", "session", "total", "end", "crashed"}
             => /\ total_files_improved = ImprovedSessions(Len(records))
                /\ total_errors_fixed = ErrorsFixed(Len(records))
                /\ total_files_improved <= Len(problem_files))
    /\ [][(run_pc = "session" /\ pc = "done" /\ (exit \in Reverting \/ ~written))
             => /\ total_files_improved' = total_files_improved
                /\ total_errors_fixed' = total_errors_fixed]_vars

---------------------------------------------------------------------------
(* Further properties of the rewrite step *)

(* C29: the flag returned by apply_parsing_fixes is exact for any rule     *)
(* table: in a call without an I/O failure it is True exactly when the     *)
(* content written differs from the content read, and a call whose fixes   *)
(* cancel out returns False and does not write the file.                   *)
ChangedFlagExact ==
    [][(pc \in {"call1", "call2"} /\ ~io_failed')
          => /\ changes_made' <=> (file_content' # file_content)
             /\ ParsingFixes(file_content)[1] = file_content
                   => (~changes_made' /\ ~written')]_vars

(* C30: the first component returned by clean_single_file is True exactly  *)
(* when at least one fix was written to the file during the session; a     *)
(* session that wrote nothing returns False.                               *)
ChangesMadeIffWritten ==
    (tool = "automation" /\ Returned) => (result[1] <=> written)

====
